---- MODULE Spec2Model ----
(***************************************************************************)
(* ImageCaptureApp (src/app.py): the capture orchestration of              *)
(* CameraControls / CameraPreviewWidget / Worker and the path allocation   *)
(* of PicPath, as one state machine.                                       *)
(*                                                                         *)
(* A file name is a sequence of tokens.  "(", ")" and the ten digits are   *)
(* single characters; every other token stands for a run of characters     *)
(* that holds no parenthesis, digit, dot or separator ("Unnamed", "vial",  *)
(* "sample"), and a token that begins with a dot is an extension           *)
(* (".png").  A directory is a sequence of components, each a sequence of  *)
(* tokens; a path is a record [dir, name].                                 *)
(***************************************************************************)
EXTENDS Integers, Sequences, FiniteSets, TLC

VARIABLES
    picpath,        \* MainWindow.current_picpath and the PicPath class attributes
    files,          \* the files that exist on the filesystem
    dirs,           \* the directories that exist on the filesystem
    unreadable,     \* the directories whose entries os.stat is denied
    filepath_found, \* MainWindow.filepath_found
    gui_enabled,    \* capture_button, af_controls.checkbox, af_controls.button enabled
    af_required,    \* CameraControls.af_required
    camera,         \* "none" (PreviewPlaceholderWidget) or "cam_af" (a camera with AfMode)
    current_vial,   \* ManageVialsWidget.vial_list current item
    deselect_enabled, \* list_controls.deselect_button enabled
    pool,           \* QThreadPool: the Workers running run_af
    gui_queue,      \* signals queued to the GUI thread (worker finished, camera done)
    cam_jobs,       \* capture jobs in flight on the camera thread
    requests,       \* capture clicks so far
    last            \* the handler that ran last, and what it did

vars == <<picpath, files, dirs, unreadable, filepath_found, gui_enabled, af_required, camera,
          current_vial, deselect_enabled, pool, gui_queue, cam_jobs, requests, last>>

----------------------------------------------------------------------------
(* Bounds and inputs *)

MaxRequests == 2

Root == << <<"data">> >>
Initials == <<"AB">>
ExpId == <<"3">>
BatchId == <<"A">>
FileExt == <<".png">>

\* The texts of the vial list: make_vial_list gives prefix + three digits, the
\* prefix free text ("a", "a(9)")
VialTexts == { <<"a", "0", "0", "1">>, <<"a", "(", "9", ")", "0", "0", "1">> }

NoVial == <<"-">>

----------------------------------------------------------------------------
(* str(), int() and the regular expression of make_filepath_unique *)

Digits == <<"0", "1", "2", "3", "4", "5", "6", "7", "8", "9">>

IsDigit(c) == \E d \in 1..Len(Digits) : Digits[d] = c

DigitVal(c) == (CHOOSE d \in 1..Len(Digits) : Digits[d] = c) - 1

RECURSIVE str(_)
str(n) ==
    IF n < Len(Digits) THEN <<Digits[n + 1]>>
    ELSE str(n \div Len(Digits)) \o <<Digits[(n % Len(Digits)) + 1]>>

RECURSIVE int(_)
int(s) ==
    IF Len(s) = 0 THEN 0
    ELSE int(SubSeq(s, 1, Len(s) - 1)) * Len(Digits) + DigitVal(s[Len(s)])

Max(S) == CHOOSE m \in S : \A k \in S : k <= m

\* The position of the ")" that closes a "(digits)" group opening right after
\* position i of s, or 0 when no such group opens there.
GroupEnd(s, i) ==
    IF i + 3 <= Len(s) /\ s[i + 1] = "("
    THEN LET ends == { j \in (i + 3)..Len(s) :
                         /\ s[j] = ")"
                         /\ \A k \in (i + 2)..(j - 1) : IsDigit(s[k]) }
         IN  IF ends = {} THEN 0 ELSE CHOOSE j \in ends : TRUE
    ELSE 0

\* re.match("(.*)(?=\((?P<num>[0-9]+)\))", basename): the greedy (.*) takes the
\* longest prefix that is directly followed by a "(digits)" group.
group_match(basename) ==
    LET starts == { i \in 0..Len(basename) : GroupEnd(basename, i) # 0 }
    IN  IF starts = {}
        THEN [matched |-> FALSE, group1 |-> <<>>, num |-> <<>>]
        ELSE LET i == Max(starts)
             IN  [matched |-> TRUE,
                  group1  |-> SubSeq(basename, 1, i),
                  num     |-> SubSeq(basename, i + 2, GroupEnd(basename, i) - 1)]

----------------------------------------------------------------------------
(* os.path *)

join(directory, filename) == [dir |-> directory, name |-> filename]

split(path) == [head |-> path.dir, tail |-> path.name]

IsExtToken(t) == t \in {".png", ".jpg"}

\* os.path.splitext: the extension starts at the last dot that is not leading.
splitext(tail) ==
    LET dots == { i \in 2..Len(tail) : IsExtToken(tail[i]) }
    IN  IF dots = {} THEN [root |-> tail, ext |-> <<>>]
        ELSE [root |-> SubSeq(tail, 1, Max(dots) - 1),
              ext  |-> SubSeq(tail, Max(dots), Len(tail))]

exists(path, F) == path \in F

isdir(directory, D) == directory \in D

RECURSIVE makedirs(_, _)
makedirs(directory, D) ==
    IF Len(directory) = 0 THEN D
    ELSE makedirs(SubSeq(directory, 1, Len(directory) - 1), D) \cup {directory}

----------------------------------------------------------------------------
(* class PicPath.  A PicPath value p is the record of the instance attributes  *)
(* (_basename ... _filepath), the class attributes (current_filepath,          *)
(* current_filename, default_basename, default_filename), the default          *)
(* arguments bound when the class body ran (arg_basename, arg_fileext,         *)
(* arg_in_dir), whether filepathChanged is connected to                        *)
(* MainWindow.update_filename, the text of filename_label, and calls: the      *)
(* make_filepath_unique calls of the running handler, in the order they        *)
(* returned, each [path, existed, ret], and emitted: the paths that the        *)
(* filepath setter has published in the running handler.                       *)

Today == <<"_", "today">>

\* The class body, lines 173-189, for the settings values save_dir, basename
\* and file_ext.
PicPathClass(save_dir, basename, fileext) ==
    [ _basename        |-> <<>>,
      _fileext         |-> <<>>,
      _filename        |-> <<>>,
      _directory       |-> <<>>,
      _filepath        |-> join(<<>>, <<>>),
      current_filepath |-> join(save_dir, basename \o fileext),
      current_filename |-> <<>>,
      default_basename |-> basename,
      default_filename |-> basename \o fileext,
      arg_basename     |-> basename,
      arg_fileext      |-> fileext,
      arg_in_dir       |-> save_dir,
      connected        |-> FALSE,
      filename_label   |-> join(save_dir, basename \o fileext),
      calls            |-> <<>>,
      emitted          |-> <<>> ]

candidate(head, basename, num, extension) ==
    join(head, basename \o <<"(">> \o str(num) \o <<")">> \o extension)

\* Lines 265-272: the number the search starts from
start_num_one(gm) == 1

start_num(gm) == IF gm.matched THEN int(gm.num) ELSE 1

\* Lines 269-271: the base name the candidates are built from
start_basename(gm, root) == IF gm.matched THEN gm.group1 ELSE root

\* The while loop of lines 278-281: the path is rebuilt from num, then num is
\* incremented, as long as the path exists.
RECURSIVE while_exists(_, _, _, _, _, _)

\* (the loop with num incremented before the path is rebuilt as well as after)
while_exists_skip(path, num, head, basename, extension, F) ==
    IF exists(path, F)
    THEN while_exists(candidate(head, basename, num + 1, extension), num + 2,
                      head, basename, extension, F)
    ELSE path

\* (the loop left after one pass, whether or not the rebuilt path exists)
while_exists_once(path, num, head, basename, extension, F) ==
    IF exists(path, F)
    THEN candidate(head, basename, num + 1, extension)
    ELSE path

while_exists(path, num, head, basename, extension, F) ==
    IF exists(path, F)
    THEN while_exists(candidate(head, basename, num, extension), num + 1,
                      head, basename, extension, F)
    ELSE path

returned(p, path, existed, ret) ==
    [p EXCEPT !.calls = Append(@, [path |-> path, existed |-> existed, ret |-> ret])]

\* Lines 261-272: the directory, base name, starting number and extension the
\* candidates are built from
numbered(head, se, gm) ==
    [head      |-> head,
     basename  |-> start_basename(gm, se.root),
     num       |-> start_num(gm),
     extension |-> se.ext]

split_basename(head, se) == numbered(head, se, group_match(se.root))

split_path(path) == split_basename(split(path).head, splitext(split(path).tail))

\* Lines 275-276: the first path that is tried
first_path(s) == candidate(s.head, s.basename, s.num, s.extension)

\* Lines 275-281: the path the loop ends on
unique_path(s, F) ==
    while_exists(first_path(s), s.num, s.head, s.basename, s.extension, F)

RECURSIVE make_filepath_unique(_, _)
RECURSIVE update_filename(_, _)
RECURSIVE filepath_set(_, _, _)

\* Lines 283-284: self.filepath = path; return path
set_and_return(p, path, F) ==
    [pp  |-> returned(filepath_set(p, path, F), p._filepath, TRUE, path),
     ret |-> path]

\* Lines 257-259: return path
return_filepath(p, ret) ==
    [pp |-> returned(p, p._filepath, FALSE, ret), ret |-> ret]

\* (make_filepath_unique returning the path of line 276 instead of the path the
\* loop ended on)
make_filepath_unique_stale(p, F) ==
    IF ~exists(p._filepath, F)
    THEN return_filepath(p, p._filepath)
    ELSE [set_and_return(p, unique_path(split_path(p._filepath), F), F)
             EXCEPT !.ret = first_path(split_path(p._filepath))]

\* (make_filepath_unique without the test of line 258 before the suffix is built)
make_filepath_unique_suffix(p, F) ==
    IF ~exists(p._filepath, F)
    THEN return_filepath(p, first_path(split_path(p._filepath)))
    ELSE set_and_return(p, unique_path(split_path(p._filepath), F), F)

\* PicPath.make_filepath_unique: [pp |-> the object afterwards, ret |-> the path returned]
make_filepath_unique(p, F) ==
    IF ~exists(p._filepath, F)
    THEN return_filepath(p, p._filepath)
    ELSE set_and_return(p, unique_path(split_path(p._filepath), F), F)

\* Line 463: self.filename_label.setText(PicPath.current_filepath)
set_filename_label(p) == [p EXCEPT !.filename_label = p.current_filepath]

\* MainWindow.update_filename, the slot of filepathChanged
update_filename(p, F) == set_filename_label(make_filepath_unique(p, F).pp)

\* filepathChanged.emit: the connected slot runs before emit returns
filepathChanged(p, F) == IF p.connected THEN update_filename(p, F) ELSE p

\* The filepath setter
filepath_set(p, value, F) ==
    filepathChanged([p EXCEPT !._filepath = value,
                              !.current_filepath = value,
                              !.emitted = Append(@, value)], F)

directory_set(p, value, F) ==
    filepath_set([p EXCEPT !._directory = value], join(value, p._filename), F)

filename_set(p, value, F) ==
    filepath_set([p EXCEPT !._filename = value, !.current_filename = value],
                 join(p._directory, value), F)

\* (the basename setter dropping the extension as well)
basename_set_drops_fileext(p, value, F) ==
    filename_set([p EXCEPT !._basename = value, !._fileext = <<>>], value, F)

basename_set(p, value, F) ==
    filename_set([p EXCEPT !._basename = value], value \o p._fileext, F)

fileext_set(p, value, F) ==
    filename_set([p EXCEPT !._fileext = value], p._basename \o value, F)

\* Lines 218-219: the base name and file name become the defaults
set_defaults(p) ==
    [p EXCEPT !.default_basename = p._basename, !.default_filename = p._filename]

\* Lines 216-217, for unique = [pp, ret] of line 215
adopt_path(unique, F) ==
    fileext_set(basename_set(directory_set(unique.pp, split(unique.ret).head, F),
                             splitext(split(unique.ret).tail).root, F),
                splitext(split(unique.ret).tail).ext, F)

\* Lines 214-219 of __init__, repeated as lines 232-237 of update.
adopt_unique(p, F) ==
    IF p._basename = p.default_basename
    THEN set_defaults(adopt_path(make_filepath_unique(p, F), F))
    ELSE p

init_directory(in_dir, initials, exp_id, batch_id) ==
    in_dir \o <<initials, exp_id, <<"RawPhotos">>, batch_id \o Today>>

update_directory(in_dir, initials, exp_id, batch_id) ==
    in_dir \o <<initials, exp_id, batch_id \o Today>>

\* PicPath.__init__(initials, exp_id, batch_id) with the default basename,
\* fileext and in_dir
PicPath_init(p, initials, exp_id, batch_id, F) ==
    LET directory == init_directory(p.arg_in_dir, initials, exp_id, batch_id)
        filename  == p.arg_basename \o p.arg_fileext
        q == [p EXCEPT !._basename  = p.arg_basename,
                       !._fileext   = p.arg_fileext,
                       !._filename  = filename,
                       !._directory = directory,
                       !._filepath  = join(directory, filename)]
    IN  adopt_unique(q, F)

None == <<"None">>

\* PicPath.update(initials, exp_id, batch_id) with the default basename, fileext
\* and in_dir: [pp, dirs, raised].  os.path.join raises TypeError on a None
\* component, after lines 223-225 have run.
update(p, initials, exp_id, batch_id, F, D) ==
    LET q0 == [p EXCEPT !._basename = p.arg_basename,
                        !._fileext  = p.arg_fileext,
                        !._filename = p.arg_basename \o p.arg_fileext]
    IN  IF None \in {initials, exp_id, batch_id}
        THEN [pp |-> q0, dirs |-> D, raised |-> TRUE]
        ELSE LET directory == update_directory(p.arg_in_dir, initials, exp_id, batch_id)
                 q1 == [q0 EXCEPT !._directory = directory,
                                  !._filepath  = join(directory, q0._filename)]
             IN  [pp     |-> adopt_unique(q1, F),
                  dirs   |-> makedirs(directory, D),
                  raised |-> FALSE]

----------------------------------------------------------------------------
(* MainWindow slots on the PicPath object *)

on_vial_selected(p, new_basename, F) ==
    make_filepath_unique(basename_set(p, new_basename, F), F).pp

reset_filename(p, F) == basename_set(p, p.default_basename, F)

\* (advance without the test of success)
advance_always(p, success, F) == update_filename(p, F)

advance(p, success, F) == IF success = TRUE THEN update_filename(p, F) ELSE p

pick_directory(p, chosen_dir, F) == directory_set(p, chosen_dir, F)

\* load_settings, lines 581-584: whatever update raises is swallowed
load_settings(p, initials, exp_id, batch_id, F, D) ==
    update(p, initials, exp_id, batch_id, F, D)

\* check_filepath: [dirs, filepath_found]
check_filepath(p, found, D) ==
    [dirs |-> IF ~found /\ ~isdir(p._directory, D) THEN makedirs(p._directory, D) ELSE D,
     filepath_found |-> TRUE]

----------------------------------------------------------------------------
(* The state after main(): the class body, StartUpDialog accepted with       *)
(* Initials / ExpId / BatchId, MainWindow.__init__.                          *)

StartDir == init_directory(Root, Initials, ExpId, BatchId)

SettingsDir == update_directory(Root, Initials, ExpId, BatchId)

\* The settings value "basename" and the files that exist when the program starts
StartCases ==
    { [basename |-> <<"Unnamed">>, files |-> {}],
      [basename |-> <<"Unnamed">>,
       files    |-> { join(StartDir, <<"Unnamed", ".png">>) }],
      [basename |-> <<"sample">>,
       files    |-> { join(StartDir, <<"sample", "(", "2", ")", ".png">>) }],
      [basename |-> <<"sample">>,
       files    |-> { join(StartDir, <<"sample", ".png">>),
                      join(StartDir, <<"sample", "(", "2", ")", ".png">>) }],
      [basename |-> <<"sample", "(", "2", ")">>,
       files    |-> { join(StartDir, <<"sample", "(", "2", ")", ".png">>) }] }

PickDirs == { << <<"mnt">> >> }

NoPath == join(<<>>, <<>>)

\* A handler op: the path it used, whether it ended without an exception, the
\* thread it runs on and the camera call it makes.  A slot runs on the GUI
\* thread unless said otherwise.
Started(op) ==
    [op |-> op, path |-> NoPath, ok |-> TRUE, thread |-> "gui", call |-> "none"]

RECURSIVE DirsOf(_)
DirsOf(F) ==
    IF F = {} THEN {}
    ELSE LET f == CHOOSE f \in F : TRUE
         IN  makedirs(f.dir, DirsOf(F \ {f}))

\* Line 375: filepathChanged.connect(update_filename); line 657: the label
\* shows PicPath.current_filepath
connect(p) == [p EXCEPT !.connected = TRUE, !.filename_label = p.current_filepath]

InitFrom(cases, cameras) ==
    \E start \in cases, cam \in cameras :
        /\ picpath = connect(PicPath_init(PicPathClass(Root, start.basename, FileExt),
                                          Initials, ExpId, BatchId, start.files))
        /\ files = start.files
        /\ unreadable = {}
        /\ dirs = DirsOf(start.files) \cup PickDirs \cup {Root}
        /\ filepath_found = FALSE
        /\ gui_enabled = TRUE
        /\ af_required = FALSE
        /\ camera = cam
        /\ current_vial = NoVial
        /\ deselect_enabled = FALSE
        /\ pool = <<>>
        /\ gui_queue = <<>>
        /\ cam_jobs = <<>>
        /\ requests = 0
        /\ last = Started("__init__")

Init == InitFrom(StartCases, {"none", "cam_af"})

----------------------------------------------------------------------------
\* os.path.exists is os.stat in a try block that gives False on OSError: the
\* files it reports are those in directories that may be searched.
Stat == { f \in files : f.dir \notin unreadable }

(* Handlers.  Each starts with an empty record of make_filepath_unique calls *)
(* and of published paths.                                                   *)

Fresh(p) == [p EXCEPT !.calls = <<>>, !.emitted = <<>>]

Remove(s, i) == SubSeq(s, 1, i - 1) \o SubSeq(s, i + 1, Len(s))

\* MainWindow.enable_GUI / disable_GUI set the three controls together
\* (enable_GUI leaving the controls disabled)
enable_GUI_forgotten == FALSE

enable_GUI == TRUE

disable_GUI_forgotten == TRUE

disable_GUI == FALSE

\* CameraPreviewWidget.do_capture: capture_file(PicPath.current_filepath, wait = False)
do_capture(p, click_path, required, af) ==
    [path |-> p.current_filepath, click_path |-> click_path,
     af_required |-> required, af |-> af]

\* ManageVialsWidget.index_changed -> vialSelected("vial" + text)
VialSelected(text) ==
    /\ text # current_vial
    /\ current_vial' = text
    /\ deselect_enabled' = TRUE
    /\ picpath' = on_vial_selected(Fresh(picpath), <<"vial">> \o text, Stat)
    /\ last' = Started("on_vial_selected")
    /\ UNCHANGED <<unreadable, files, dirs, filepath_found, gui_enabled, af_required, camera,
                   pool, gui_queue, cam_jobs, requests>>

\* deselect_button.clicked -> ManageVialsWidget.deselect, MainWindow.reset_filename
Deselect ==
    /\ deselect_enabled
    /\ deselect_enabled' = FALSE
    /\ picpath' = reset_filename(Fresh(picpath), Stat)
    /\ last' = Started("reset_filename")
    /\ UNCHANGED <<unreadable, files, dirs, filepath_found, gui_enabled, af_required, camera,
                   current_vial, pool, gui_queue, cam_jobs, requests>>

\* "Choose save folder": QFileDialog.getExistingDirectory gives an existing
\* directory, or "" when cancelled
PickDirectory(chosen_dir) ==
    /\ picpath' = pick_directory(Fresh(picpath), chosen_dir, Stat)
    /\ last' = Started("pick_directory")
    /\ UNCHANGED <<unreadable, files, dirs, filepath_found, gui_enabled, af_required, camera,
                   current_vial, deselect_enabled, pool, gui_queue, cam_jobs, requests>>

\* do_settings_dlg / do_defaults_dlg -> load_settings with the stored initials
LoadSettings(initials) ==
    /\ \E r \in {load_settings(Fresh(picpath), initials, ExpId, BatchId, Stat, dirs)} :
          /\ picpath' = r.pp
          /\ dirs' = r.dirs
          /\ last' = [Started("load_settings") EXCEPT !.ok = ~r.raised]
    /\ UNCHANGED <<unreadable, files, filepath_found, gui_enabled, af_required, camera,
                   current_vial, deselect_enabled, pool, gui_queue, cam_jobs,
                   requests>>

\* af_controls.checkbox.stateChanged -> af_requirement_changed
AfRequirementChanged ==
    /\ gui_enabled
    /\ camera = "cam_af"
    /\ af_required' = ~af_required
    /\ picpath' = Fresh(picpath)
    /\ last' = Started("af_requirement_changed")
    /\ UNCHANGED <<unreadable, files, dirs, filepath_found, gui_enabled, camera, current_vial,
                   deselect_enabled, pool, gui_queue, cam_jobs, requests>>

needs_autofocus_inverted(required) == required = FALSE

\* Line 685: if self.af_required == True
needs_autofocus(required) == required = TRUE

\* capture_button.clicked -> CameraControls.capture_button_clicked, then
\* MainWindow.check_filepath (the order of the connections)
capture_button_clicked ==
    LET p == Fresh(picpath)
        c == check_filepath(p, filepath_found, dirs)
    IN  /\ dirs' = c.dirs
        /\ filepath_found' = c.filepath_found
        /\ requests' = requests + 1
        /\ last' = [Started("capture_button_clicked") EXCEPT
                       !.path = p.current_filepath,
                       !.call = IF ~needs_autofocus(af_required) /\ camera # "none"
                                THEN "capture_file" ELSE "none"]
        /\ IF needs_autofocus(af_required)
           THEN /\ gui_enabled' = disable_GUI
                /\ picpath' = p
                /\ pool' = Append(pool, [slot |-> "do_capture",
                                         click_path |-> p.current_filepath,
                                         af_required |-> af_required])
                /\ UNCHANGED cam_jobs
           ELSE IF camera = "none"
           THEN \* PreviewPlaceholderWidget.do_capture: picTaken(False) ->
                \* do_enable_GUI, MainWindow.advance
                /\ gui_enabled' = enable_GUI
                /\ picpath' = advance(p, FALSE, Stat)
                /\ UNCHANGED <<pool, cam_jobs>>
           ELSE /\ gui_enabled' = disable_GUI
                /\ picpath' = p
                /\ cam_jobs' = Append(cam_jobs,
                                      do_capture(p, p.current_filepath, af_required, "none"))
                /\ UNCHANGED pool
        /\ UNCHANGED <<unreadable, files, af_required, camera, current_vial, deselect_enabled,
                       gui_queue>>

CaptureClick ==
    /\ gui_enabled
    /\ requests < MaxRequests
    /\ capture_button_clicked

\* af_controls.button.clicked -> run_af_once
run_af_once ==
    /\ gui_enabled' = disable_GUI
    /\ pool' = Append(pool, [slot |-> "do_enable_GUI", click_path |-> NoPath,
                             af_required |-> FALSE])
    /\ picpath' = Fresh(picpath)
    /\ last' = Started("run_af_once")
    /\ UNCHANGED <<unreadable, files, dirs, filepath_found, af_required, camera, current_vial,
                   deselect_enabled, gui_queue, cam_jobs, requests>>

\* (the autofocus button accepted while the controls are disabled)
AfOnceClick_while_disabled ==
    /\ camera = "cam_af"
    /\ run_af_once

AfOnceClick ==
    /\ gui_enabled
    /\ camera = "cam_af"
    /\ run_af_once

\* Worker.run on a pool thread: run_af returns or raises; finished is emitted
\* either way and is queued to the GUI thread.
WorkerRun(i, outcome) ==
    /\ i \in 1..Len(pool)
    /\ pool' = Remove(pool, i)
    /\ gui_queue' = Append(gui_queue,
                           [sig |-> "finished", slot |-> pool[i].slot,
                            click_path |-> pool[i].click_path,
                            af_required |-> pool[i].af_required, af |-> outcome])
    /\ picpath' = Fresh(picpath)
    /\ last' = [Started("run") EXCEPT !.ok = (outcome = "ok"),
                                       !.thread = "pool",
                                       !.call = "autofocus_cycle"]
    /\ UNCHANGED <<unreadable, files, dirs, filepath_found, gui_enabled, af_required, camera,
                   current_vial, deselect_enabled, cam_jobs, requests>>

\* finished -> CameraPreviewWidget.do_capture
FinishedDoCapture ==
    /\ gui_queue # <<>>
    /\ Head(gui_queue).sig = "finished"
    /\ Head(gui_queue).slot = "do_capture"
    /\ gui_queue' = Tail(gui_queue)
    /\ cam_jobs' = Append(cam_jobs,
                          do_capture(picpath, Head(gui_queue).click_path,
                                     Head(gui_queue).af_required, Head(gui_queue).af))
    /\ picpath' = Fresh(picpath)
    /\ last' = [Started("do_capture") EXCEPT !.path = picpath.current_filepath,
                                              !.call = "capture_file"]
    /\ UNCHANGED <<unreadable, files, dirs, filepath_found, gui_enabled, af_required, camera,
                   current_vial, deselect_enabled, pool, requests>>

\* finished -> do_enable_GUI.emit
FinishedEnable ==
    /\ gui_queue # <<>>
    /\ Head(gui_queue).sig = "finished"
    /\ Head(gui_queue).slot = "do_enable_GUI"
    /\ gui_queue' = Tail(gui_queue)
    /\ gui_enabled' = enable_GUI
    /\ picpath' = Fresh(picpath)
    /\ last' = Started("do_enable_GUI")
    /\ UNCHANGED <<unreadable, files, dirs, filepath_found, af_required, camera, current_vial,
                   deselect_enabled, pool, cam_jobs, requests>>

\* The camera thread runs the oldest capture job: the file is written when the
\* job succeeds, which needs its directory; signal_done queues done_signal.
CameraJob(ok) ==
    /\ cam_jobs # <<>>
    /\ ok => /\ isdir(Head(cam_jobs).path.dir, dirs)
             /\ Head(cam_jobs).path.dir \notin unreadable
    /\ cam_jobs' = Tail(cam_jobs)
    /\ files' = IF ok THEN files \cup {Head(cam_jobs).path} ELSE files
    /\ gui_queue' = Append(gui_queue, [sig |-> "done", job |-> Head(cam_jobs), ok |-> ok])
    /\ picpath' = Fresh(picpath)
    /\ last' = [Started("capture_file") EXCEPT !.path = Head(cam_jobs).path,
                                                !.ok = ok,
                                                !.thread = "camera"]
    /\ UNCHANGED <<unreadable, dirs, filepath_found, gui_enabled, af_required, camera,
                   current_vial, deselect_enabled, pool, requests>>

\* done_signal -> capture_pic(job): picam2.wait(job) raises when the job failed;
\* otherwise picTaken(True) -> do_enable_GUI, MainWindow.advance
capture_pic ==
    /\ gui_queue # <<>>
    /\ Head(gui_queue).sig = "done"
    /\ gui_queue' = Tail(gui_queue)
    /\ IF Head(gui_queue).ok
       THEN /\ gui_enabled' = enable_GUI
            /\ picpath' = advance(Fresh(picpath), TRUE, Stat)
       ELSE /\ picpath' = Fresh(picpath)
            /\ UNCHANGED gui_enabled
    /\ last' = [Started("capture_pic") EXCEPT !.path = Head(gui_queue).job.path,
                                               !.ok = Head(gui_queue).ok,
                                               !.call = "wait"]
    /\ UNCHANGED <<unreadable, files, dirs, filepath_found, af_required, camera, current_vial,
                   deselect_enabled, pool, cam_jobs, requests>>

Next ==
    \/ \E text \in VialTexts : VialSelected(text)
    \/ Deselect
    \/ \E initials \in {Initials, None} : LoadSettings(initials)
    \/ AfRequirementChanged
    \/ CaptureClick
    \/ AfOnceClick
    \/ \E i \in 1..Len(pool), outcome \in {"ok", "error"} : WorkerRun(i, outcome)
    \/ FinishedDoCapture
    \/ FinishedEnable
    \/ \E ok \in BOOLEAN : CameraJob(ok)
    \/ capture_pic

Spec == Init /\ [][Next]_vars

\* The same program with the "Choose save folder" menu entry in use, started
\* with the default base name "Unnamed" and a camera.
InitDir ==
    InitFrom({ start \in StartCases : start.basename = <<"Unnamed">> }, {"cam_af"})

NextDir ==
    \/ Next
    \/ \E chosen_dir \in PickDirs : PickDirectory(chosen_dir)

SpecDir == InitDir /\ [][NextDir]_vars

\* The same program with the filesystem changed from outside between its
\* handlers, started with the default base name "Unnamed", no files and a camera.
ExternalDelete(f) ==
    /\ f \in files
    /\ files' = files \ {f}
    /\ picpath' = Fresh(picpath)
    /\ last' = [Started("unlink") EXCEPT !.path = f, !.thread = "outside"]
    /\ UNCHANGED <<unreadable, dirs, filepath_found, gui_enabled, af_required, camera,
                   current_vial, deselect_enabled, pool, gui_queue, cam_jobs, requests>>

\* The search permission of the current directory is taken away from outside.
ExternalChmod(directory) ==
    /\ isdir(directory, dirs)
    /\ directory \notin unreadable
    /\ unreadable' = unreadable \cup {directory}
    /\ picpath' = Fresh(picpath)
    /\ last' = [Started("chmod") EXCEPT !.thread = "outside"]
    /\ UNCHANGED <<files, dirs, filepath_found, gui_enabled, af_required, camera,
                   current_vial, deselect_enabled, pool, gui_queue, cam_jobs, requests>>

InitFs ==
    InitFrom({ start \in StartCases :
                 start.basename = <<"Unnamed">> /\ start.files = {} }, {"cam_af"})

NextFs ==
    \/ Next
    \/ \E f \in files : ExternalDelete(f)
    \/ ExternalChmod(picpath._directory)

SpecFs == InitFs /\ [][NextFs]_vars

\* The same program with every camera operation completing without error: the
\* autofocus run returns and the capture job writes its file.  The thread
\* pool runs a started Worker, the camera thread runs a queued job and the
\* event loop of the GUI thread delivers a queued signal, each in the end.
NextOk ==
    \/ \E text \in VialTexts : VialSelected(text)
    \/ Deselect
    \/ \E initials \in {Initials, None} : LoadSettings(initials)
    \/ AfRequirementChanged
    \/ CaptureClick
    \/ AfOnceClick
    \/ \E i \in 1..Len(pool) : WorkerRun(i, "ok")
    \/ FinishedDoCapture
    \/ FinishedEnable
    \/ CameraJob(TRUE)
    \/ capture_pic

\* The step of capture_pic, told by what it does to the queue: no other
\* handler takes a done_signal from it
done_signal_delivered ==
    /\ gui_queue # <<>>
    /\ Head(gui_queue).sig = "done"
    /\ gui_queue' = Tail(gui_queue)

Scheduling ==
    /\ WF_vars(\E i \in 1..Len(pool) : WorkerRun(i, "ok"))
    /\ WF_vars(FinishedDoCapture)
    /\ WF_vars(FinishedEnable)
    /\ WF_vars(CameraJob(TRUE))
    /\ WF_gui_queue(done_signal_delivered)

SpecOk == InitFs /\ [][NextOk]_vars /\ Scheduling

----------------------------------------------------------------------------
(* Properties *)

Range(s) == { s[i] : i \in 1..Len(s) }

\* The capture jobs that exist: in flight on the camera, or done and waiting
\* for capture_pic
Jobs == Range(cam_jobs) \cup { e.job : e \in { x \in Range(gui_queue) : x.sig = "done" } }

\* The capture requests whose autofocus has not yet led to do_capture
Focusing ==
    { w \in Range(pool) : w.slot = "do_capture" }
      \cup { e \in Range(gui_queue) : e.sig = "finished" /\ e.slot = "do_capture" }

\* C1: a capture request with autofocus required whose autofocus call reports an
\* error ends as an autofocus failure and never reaches the still capture: no
\* capture job exists for a request whose autofocus raised.
C1_AutofocusErrorStopsCapture ==
    \A job \in Jobs : job.af # "error"

\* The operations on the camera that have been started and not yet handled by
\* the GUI thread
Active == Len(pool) + Len(gui_queue) + Len(cam_jobs)

\* C2: at most one job (an autofocus run or a still capture) is active at any
\* time, and while one is active the controls that submit a request are
\* disabled, so that no request reaches the camera.
C2_AtMostOneJob ==
    /\ Active <= 1
    /\ Active = 1 => gui_enabled = FALSE

C2_Witness ==
    /\ requests > 1
    /\ Len(cam_jobs) = 1
    /\ gui_enabled = FALSE

\* C9: the path handed to the still capture is the current path as of the
\* capture click.
C9_PathFixedAtClick ==
    \A job \in Jobs : job.path = job.click_path

\* C10: autofocus runs for a capture request if and only if it was required at
\* the click, and the still capture starts only after the autofocus Worker has
\* emitted finished: a capture job carries an autofocus outcome exactly when its
\* request required autofocus, only such requests wait on a Worker, and no
\* capture job exists while a request is still focusing.
C10_AutofocusIffRequired ==
    /\ \A job \in Jobs : job.af_required <=> job.af \in {"ok", "error"}
    /\ \A w \in Focusing : w.af_required
    /\ Focusing # {} => Jobs = {}

C10_Witness ==
    \E job \in Range(cam_jobs) : job.af_required /\ job.af = "ok"

\* C3: after a successful capture of path p (picTaken(True)), the allocation
\* made by advance does not return p, and the path the next capture is handed
\* (PicPath.current_filepath) is not p.
C3_CaptureConsumesPath ==
    (last.op = "capture_pic" /\ last.ok) =>
        /\ picpath.calls # <<>>
        /\ picpath.calls[Len(picpath.calls)].ret # last.path
        /\ picpath.current_filepath # last.path

Calls == Range(picpath.calls)

\* C4: make_filepath_unique called twice in a row on an unchanged filesystem
\* returns the same path both times and leaves the filepath of the PicPath
\* equal to it (and the class-wide current_filepath, when the two agreed
\* before): in every reachable state, and for the two calls that
\* on_vial_selected makes in a row.
C4_AllocationIdempotent ==
    /\ LET r1 == make_filepath_unique(picpath, files)
           r2 == make_filepath_unique(r1.pp, files)
       IN  /\ r2.ret = r1.ret
           /\ r1.pp._filepath = r1.ret
           /\ r2.pp._filepath = r1.ret
           /\ picpath.current_filepath = picpath._filepath
                  => r2.pp.current_filepath = r1.ret
    /\ last.op = "on_vial_selected" =>
          LET n == Len(picpath.calls)
          IN  /\ n >= 2
              /\ picpath.calls[n].ret = picpath.calls[n - 1].ret
              /\ picpath._filepath = picpath.calls[n].ret
              /\ picpath.current_filepath = picpath.calls[n].ret

C4_Witness ==
    /\ last.op = "on_vial_selected"
    /\ Len(picpath.calls) >= 2
    /\ picpath.calls[Len(picpath.calls) - 1].existed
    /\ picpath.calls[Len(picpath.calls)].ret = picpath.calls[Len(picpath.calls) - 1].ret

\* The smallest index from n on whose candidate does not exist
LeastFree(head, basename, extension, n, F) ==
    CHOOSE m \in n..(n + Cardinality(F)) :
        /\ ~exists(candidate(head, basename, m, extension), F)
        /\ \A k \in n..(m - 1) : exists(candidate(head, basename, k, extension), F)

\* C5: when the path exists, make_filepath_unique returns <base>(<m>)<ext> in
\* the same directory, m the smallest integer from the starting n on (1 without
\* a marker, the parsed number otherwise) whose candidate does not exist; the
\* returned path does not exist.
C5_SmallestFreeIndex ==
    \A c \in Calls :
        c.existed =>
            LET se == splitext(c.path.name)
                gm == group_match(se.root)
                n  == IF gm.matched THEN int(gm.num) ELSE 1
                b  == IF gm.matched THEN gm.group1 ELSE se.root
                m  == LeastFree(c.path.dir, b, se.ext, n, files)
            IN  /\ c.ret = join(c.path.dir, b \o <<"(">> \o str(m) \o <<")">> \o se.ext)
                /\ ~exists(c.ret, files)

C5_Witness ==
    \E c \in Calls :
        /\ c.existed
        /\ ~group_match(splitext(c.path.name).root).matched
        /\ c.ret = candidate(c.path.dir, splitext(c.path.name).root, 2, <<".png">>)

Sample(n) == <<"sample", "(">> \o n \o <<")", ".png">>

\* C6 as claimed: with sample(2).png existing, allocation for base name
\* "sample" and extension ".png" returns sample(3).png.
C6_SampleTwoGivesThree ==
    \A c \in Calls :
        (/\ c.path.name = <<"sample", ".png">>
         /\ exists(join(c.path.dir, Sample(<<"2">>)), files))
            => c.ret = join(c.path.dir, Sample(<<"3">>))

\* C6 as amended: when the current path is the existing file sample(2).png,
\* allocation returns sample(3).png if that name is free, and never
\* sample(1).png.
C6_FromSampleTwo ==
    \A c \in Calls :
        (c.path.name = Sample(<<"2">>) /\ c.existed) =>
            /\ c.ret # join(c.path.dir, Sample(<<"1">>))
            /\ ~exists(join(c.path.dir, Sample(<<"3">>)), files)
                  => c.ret = join(c.path.dir, Sample(<<"3">>))

C6_Witness ==
    \E c \in Calls :
        /\ c.path.name = Sample(<<"2">>)
        /\ c.existed
        /\ c.ret = join(c.path.dir, Sample(<<"3">>))

\* C7: when no file exists at the path, make_filepath_unique returns it
\* unchanged, with no "(1)" added, and modifies nothing of the PicPath.
C7_FreePathUnchanged ==
    /\ \A c \in Calls : ~c.existed => c.ret = c.path
    /\ ~exists(picpath._filepath, files) =>
          LET r == make_filepath_unique(picpath, files)
          IN  /\ r.ret = picpath._filepath
              /\ Fresh(r.pp) = Fresh(picpath)

C7_Witness ==
    /\ last.op = "on_vial_selected"
    /\ \A c \in Calls : ~c.existed
    /\ picpath.calls[Len(picpath.calls)].ret = join(StartDir, <<"vial", "a", "0", "0", "1", ".png">>)

\* C8: the path allocated at startup is root_dir/initials/experiment_id/
\* batch_id_<today>/base_name+extension, /data/AB/3/A_<today>/Unnamed.png with
\* no prior files, in the directory PicPath.update builds from the same inputs.
C8_StartupLayout ==
    (last.op = "__init__" /\ picpath.arg_basename = <<"Unnamed">> /\ files = {}) =>
        /\ picpath._filepath =
              join(<< <<"data">>, <<"AB">>, <<"3">>, <<"A", "_", "today">> >>,
                   <<"Unnamed", ".png">>)
        /\ picpath._directory = SettingsDir

\* C11: every failure of a capture job ends with the capture control enabled
\* again: once a failed capture job has been handled by capture_pic and no
\* camera operation is pending, the controls are enabled.
C11_FailureReenables ==
    (last.op = "capture_pic" /\ ~last.ok /\ Active = 0) => gui_enabled

\* C12: after a Worker whose fn raised the controls do not stay disabled: when
\* the capture job of a request whose autofocus raised has been handled, so
\* that nothing is pending any more, the controls are enabled.
C12_WorkerErrorClearsBusy ==
    [][ (/\ gui_queue # <<>>
         /\ Head(gui_queue).sig = "done"
         /\ Head(gui_queue).job.af = "error"
         /\ gui_queue' = Tail(gui_queue)
         /\ Len(gui_queue) + Len(pool) + Len(cam_jobs) = 1)
           => gui_enabled' ]_vars

\* The path is <base>(<k>)<ext>, as make_filepath_unique builds it
indexed(path) == first_path(split_path(path)) = path

same_base(a, s) ==
    a.head = s.head /\ a.basename = s.basename /\ a.extension = s.extension

\* C13: within one session the index allocated for a base name never
\* decreases, whatever has been selected, deselected, captured or deleted from
\* outside: when the current path is <base>(k), allocated before, no allocation
\* of the next handler returns <base>(j) with j lower than k.
C13_IndexNeverDecreases ==
    [][ \A c \in Range(picpath'.calls) :
          (/\ c.existed
           /\ indexed(picpath._filepath)
           /\ same_base(split_path(picpath._filepath), split_path(c.ret)))
             => split_path(c.ret).num >= split_path(picpath._filepath).num ]_vars

\* C14: the GUI thread never issues or waits on a camera operation: every
\* handler that calls autofocus_cycle, capture_file or wait runs on a thread
\* of the QThreadPool.
C14_CameraCallsOnWorkers ==
    last.call # "none" => last.thread = "pool"

\* C15: every path that is published (each filepathChanged emission, which
\* goes with an update of PicPath.current_filepath) names no existing file at
\* that moment; the filesystem does not change while a handler runs.
C15_PublishedPathsFree ==
    \A i \in 1..Len(picpath.emitted) : ~exists(picpath.emitted[i], files)

\* C16: when the parent directory of the path cannot be statted, allocation
\* fails with an error and returns no path: no make_filepath_unique call of
\* the last handler has returned for a path in such a directory.
C16_StatErrorPropagates ==
    \A c \in Calls : c.path.dir \notin unreadable

\* C17: a mutation of the naming template with an empty component fails and
\* is never partially applied: when PicPath.update raises on a missing
\* component, no field of the PicPath and no published path has changed.
C17_RejectedUpdateChangesNothing ==
    [][ (last'.op = "load_settings" /\ ~last'.ok)
           => Fresh(picpath') = Fresh(picpath) ]_vars

FileExts == { <<".png">>, <<".jpg">> }

\* C18: the basename setter replaces the base name and leaves the extension
\* and the directory as they were; the fileext setter replaces the extension
\* and leaves the base name and the directory as they were.  The path that
\* results lies in the unchanged directory.
C18_SettersFrame ==
    /\ \A text \in VialTexts :
          LET q == basename_set(picpath, <<"vial">> \o text, Stat)
          IN  /\ q._basename = <<"vial">> \o text
              /\ q._fileext = picpath._fileext
              /\ q._directory = picpath._directory
              /\ q._filepath.dir = picpath._directory
    /\ \A value \in FileExts :
          LET q == fileext_set(picpath, value, Stat)
          IN  /\ q._fileext = value
              /\ q._basename = picpath._basename
              /\ q._directory = picpath._directory
              /\ q._filepath.dir = picpath._directory

C18_Witness ==
    /\ last.op = "on_vial_selected"
    /\ \E c \in Calls : c.existed
    /\ picpath._basename = <<"vial", "a", "0", "0", "1">>
    /\ picpath._fileext = FileExt
    /\ picpath._filepath = join(picpath._directory,
                                <<"vial", "a", "0", "0", "1", "(", "1", ")", ".png">>)

\* C19: a failed capture causes no renaming and no retry: the handler that
\* ends with picTaken(False) leaves the PicPath (instance filepath and
\* PicPath.current_filepath included) as it was before the request, makes no
\* allocation, publishes no path, issues no camera call and leaves no job
\* behind.
C19_FailedCaptureKeepsPath ==
    [][ (last'.op = "capture_button_clicked" /\ camera = "none")
           => /\ picpath' = Fresh(picpath)
              /\ picpath'._filepath = picpath._filepath
              /\ picpath'.current_filepath = picpath.current_filepath
              /\ last'.call = "none"
              /\ pool' = <<>> /\ cam_jobs' = <<>> /\ gui_queue' = <<>>
              /\ gui_enabled' ]_vars

C19_Witness ==
    /\ last.op = "capture_button_clicked"
    /\ camera = "none"
    /\ requests = 2
    /\ picpath.current_filepath = last.path
    /\ gui_enabled

\* C20: no timeout is imposed on camera operations: while an autofocus run
\* or a capture job has not completed the controls are disabled; disabled
\* controls accept no capture request and start no autofocus; and they are
\* enabled again only by the handler of a queued finished or done signal, so
\* that they stay disabled forever when the operation never completes.
C20_NoTimeout ==
    [][ /\ (pool # <<>> \/ cam_jobs # <<>>) => ~gui_enabled
        /\ ~gui_enabled => /\ requests' = requests
                           /\ Len(pool') <= Len(pool)
        /\ (~gui_enabled /\ gui_enabled')
              => (gui_queue # <<>> /\ gui_queue' = Tail(gui_queue)) ]_vars

C20_Witness ==
    /\ ~gui_enabled
    /\ Len(pool) = 1
    /\ pool[1].slot = "do_capture"
    /\ last.op = "on_vial_selected"

IsPrefix(a, b) == Len(a) <= Len(b) /\ SubSeq(b, 1, Len(a)) = a

\* The stem ends in a "(digits)" group with some text before it
trailing_marker(stem) ==
    \E i \in 0..Len(stem) : GroupEnd(stem, i) = Len(stem)

\* C21: stem parsing recognises only a trailing marker: for a stem that does
\* not end in "(n)", one with "(n)" followed by more characters included, the
\* base is the full stem and the search starts at 1, so that the returned file
\* name is <stem>(<m>)<ext>, m the smallest free index from 1 on.
C21_OnlyTrailingMarker ==
    \A c \in Calls :
        (c.existed /\ ~trailing_marker(splitext(c.path.name).root)) =>
            /\ IsPrefix(splitext(c.path.name).root \o <<"(">>, c.ret.name)
            /\ c.ret = candidate(c.path.dir, splitext(c.path.name).root,
                                 LeastFree(c.path.dir, splitext(c.path.name).root,
                                           splitext(c.path.name).ext, 1, files),
                                 splitext(c.path.name).ext)

\* C22: the still capture is never started on a path that already exists: the
\* path that do_capture reads (PicPath.current_filepath, handed to
\* capture_file) names no existing file, so that no earlier capture is
\* overwritten.
C22_CaptureNeverOverwrites ==
    last.call = "capture_file" => ~exists(last.path, files)

\* C23: the class-wide PicPath.current_filepath equals the filepath of the
\* window's PicPath whenever no handler is running, after any sequence of
\* construction, setter calls, make_filepath_unique and PicPath.update.
C23_CurrentFilepathInSync ==
    picpath.current_filepath = picpath._filepath

\* C24: whenever the still capture is started (do_capture calls capture_file),
\* the directory of the target path exists already: it is there before the
\* handler that makes the call has run check_filepath, for the first capture
\* and for every capture after a directory change.
C24_DirectoryBeforeCapture ==
    [][ last'.call = "capture_file" => isdir(last'.path.dir, dirs) ]_vars

\* The make_filepath_unique calls a handler makes itself, outside any
\* notification chain
direct_calls(op) == IF op = "on_vial_selected" THEN 1 ELSE 0

\* C25: the re-entrant notification chain always terminates: a setter emits
\* filepathChanged, update_filename calls make_filepath_unique, which may set
\* the filepath and emit again; the chain of a setter call ends after at most
\* two emissions (two exactly when the path that was set exists), one
\* make_filepath_unique call for each, on a path that does not exist; and the
\* while loop of make_filepath_unique exits within as many indices as there
\* are files.
C25_ChainTerminates ==
    /\ last.op \in {"on_vial_selected", "reset_filename"} =>
          /\ Len(picpath.emitted) \in {1, 2}
          /\ Len(picpath.emitted) = 2 <=> exists(picpath.emitted[1], files)
          /\ ~exists(picpath.emitted[Len(picpath.emitted)], files)
          /\ Len(picpath.calls) = Len(picpath.emitted) + direct_calls(last.op)
    /\ last.op = "capture_pic" => Len(picpath.emitted) <= 1
    /\ \A c \in Calls :
          c.existed => /\ split_path(c.ret).num >= split_path(c.path).num
                       /\ split_path(c.ret).num <= split_path(c.path).num + Cardinality(files)

C25_Witness ==
    /\ last.op = "reset_filename"
    /\ Len(picpath.emitted) = 2
    /\ Len(picpath.calls) = 2
    /\ ~picpath.calls[1].existed
    /\ picpath.calls[2].existed
    /\ picpath.calls[2].path = picpath.emitted[1]
    /\ picpath.calls[2].ret = picpath.emitted[2]

\* picTaken(True) has been emitted: the controls are enabled and
\* MainWindow.advance has run update_filename
picTaken_True ==
    /\ last.op = "capture_pic"
    /\ last.ok
    /\ gui_enabled
    /\ picpath.calls # <<>>
    /\ picpath.filename_label = picpath.current_filepath

\* C26: when the camera operations complete without error, every disabling of
\* the controls is followed by their re-enabling: after a capture click, with
\* or without autofocus, picTaken(True) is emitted in the end, the controls are
\* enabled and the path is advanced; after a stand-alone autofocus click the
\* controls are enabled again by the Worker's finished signal, and no still
\* capture is started for it.
C26_DisabledLeadsToEnabled ==
    /\ ~gui_enabled ~> gui_enabled
    /\ (last.op = "capture_button_clicked") ~> picTaken_True
    /\ (last.op = "run_af_once") ~> (last.op = "do_enable_GUI" /\ gui_enabled)
    /\ [][ (/\ gui_queue # <<>>
            /\ Head(gui_queue).sig = "finished"
            /\ Head(gui_queue).slot = "do_enable_GUI"
            /\ gui_queue' = Tail(gui_queue))
              => (gui_enabled' /\ cam_jobs' = <<>> /\ last'.call = "none") ]_vars

C26_Witness ==
    /\ picTaken_True
    /\ requests = 2
    /\ \E c \in Calls : c.existed

====
